---- MODULE Spec2Model ----
(***************************************************************************)
(* Model of ethcore/wasm2/src/runtime.rs: the host-function layer of the   *)
(* wasm contract runtime (gas meter, memory bridge, storage_read, ret,     *)
(* gas, gas_left, result, dissolve, invoke_index).                         *)
(*                                                                         *)
(* Widths are scaled down: u64 is GasBits wide, u32 is ArgBits wide, the   *)
(* 32-byte H256 is HashLen bytes, a byte is one bit.  Arithmetic keeps     *)
(* its width: an overflowing u64 addition either panics (build with        *)
(* overflow checks) or wraps modulo 2^GasBits (build without).             *)
(***************************************************************************)
EXTENDS Integers, Sequences, FiniteSets, TLC

\* ---------------------------------------------------------------- bounds
GasBits == 3
ArgBits == 2
MemSize == 2
HashLen == 1

U64Max == 2^GasBits - 1
U32Max == 2^ArgBits - 1
U64 == 0..U64Max
U32 == 0..U32Max
\* A byte carries one bit: no host function branches on a byte's value.
Byte == {0, 1}

\* A wasm argument that is not an i32 (RuntimeArgs::nth fails on it).
BadArg == 0 - 1
ArgValue == U32 \cup {BadArg}

H256 == [1..HashLen -> Byte]

\* Ghost sum of the amounts of successful charges saturates here.
ChargedCap == U64Max + 1

Min(a, b) == IF a < b THEN a ELSE b

VARIABLES
    gas_counter,   \* Runtime.gas_counter
    gas_limit,     \* Runtime.gas_limit
    memory,        \* Runtime.memory: the interpreter's linear memory
    result,        \* Runtime.result
    ext,           \* Runtime.ext: the storage behind storage_at, schedule().sload_gas
    context,       \* Runtime.context
    call_data,     \* Runtime.args (the call data; `args` names RuntimeArgs below)
    pc,            \* position of the running host call
    frame,         \* locals of the running storage_read: args, key, val
    last,          \* the last call: op, Ok or the error returned, value or bytes
                   \* returned, the arguments of a successful ret
    log,           \* effects of the current (or last) call, in order
    charged        \* ghost: sum of the amounts of successful charges

vars == <<gas_counter, gas_limit, memory, result, ext, context, call_data,
          pc, frame, last, log, charged>>

\* ------------------------------------------------------------- error kinds
\* enum Error
ErrorKinds ==
    {"StorageReadError", "StorageUpdateError", "MemoryAccessViolation", "Suicide",
     "SuicideAbort", "InvalidGasState", "BalanceQueryError", "AllocationFailed",
     "GasLimit", "Unknown", "BadUtf8", "Log", "Other", "InvalidSyscall", "Panic"}

\* wasmi::Error, the interpreter's faults
InterpreterErrors ==
    {"Validation", "Instantiation", "Function", "Table", "Memory", "Global",
     "Value", "Trap", "Host"}

\* The conversion with the Memory arm left out: a memory fault falls to `_`.
FromInterpreterError_NoMemoryArm(interpreter_err) ==
    CASE interpreter_err = "Value"  -> "InvalidSyscall"
      [] OTHER                      -> "Other"

\* The conversion with the results of the Value arm and the `_` arm exchanged.
FromInterpreterError_ArmsExchanged(interpreter_err) ==
    CASE interpreter_err = "Value"  -> "Other"
      [] interpreter_err = "Memory" -> "MemoryAccessViolation"
      [] OTHER                      -> "InvalidSyscall"

\* impl From<InterpreterError> for Error
FromInterpreterError(interpreter_err) ==
    CASE interpreter_err = "Value"  -> "InvalidSyscall"
      [] interpreter_err = "Memory" -> "MemoryAccessViolation"
      [] OTHER                      -> "Other"

\* --------------------------------------------------------------- memory
\* MemoryRef bounds check used by get_into / get / set.
InBounds(ptr, len) == ptr + len <= MemSize

\* self.memory.get(ptr, len) / get_into(ptr, buf): the bytes at [ptr, ptr+len)
MemGet(mem, ptr, len) == [i \in 1..len |-> mem[ptr + i - 1]]

\* self.memory.set(ptr, bytes)
MemSet(mem, ptr, bytes) ==
    [a \in 0..(MemSize - 1) |->
        IF a >= ptr /\ a < ptr + Len(bytes) THEN bytes[a - ptr + 1] ELSE mem[a]]

\* ---------------------------------------------------------------- gas meter
\* u64 addition `prev + amount`: the sum when it fits; on overflow the
\* wrapped sum (no overflow checks) or a panic (overflow checks).
AddU64(a, b) ==
    IF a + b <= U64Max
    THEN {[panic |-> FALSE, sum |-> a + b]}
    ELSE {[panic |-> TRUE, sum |-> a], [panic |-> FALSE, sum |-> (a + b) % (U64Max + 1)]}

\* charge_gas comparing the counter before the addition with the ceiling.
charge_gas_checks_prev(prev, amount, limit) ==
    { IF s.panic
      THEN [panic |-> TRUE, ok |-> FALSE, counter |-> prev]
      ELSE IF prev > limit
           THEN [panic |-> FALSE, ok |-> FALSE, counter |-> prev]
           ELSE [panic |-> FALSE, ok |-> TRUE, counter |-> s.sum]
      : s \in AddU64(prev, amount) }

\* charge_gas charging what is left of the ceiling when the amount does not fit.
charge_gas_partial(prev, amount, limit) ==
    { IF s.panic
      THEN [panic |-> TRUE, ok |-> FALSE, counter |-> prev]
      ELSE IF s.sum > limit
           THEN [panic |-> FALSE, ok |-> FALSE, counter |-> limit]
           ELSE [panic |-> FALSE, ok |-> TRUE, counter |-> s.sum]
      : s \in AddU64(prev, amount) }

\* Runtime::charge_gas: the set of outcomes [panic, ok, counter].
charge_gas(prev, amount, limit) ==
    { IF s.panic
      THEN [panic |-> TRUE, ok |-> FALSE, counter |-> prev]
      ELSE IF s.sum > limit
           THEN [panic |-> FALSE, ok |-> FALSE, counter |-> prev]
           ELSE [panic |-> FALSE, ok |-> TRUE, counter |-> s.sum]
      : s \in AddU64(prev, amount) }

\* `x as u64` of a u32 or usize
AsU64(x) == x % (U64Max + 1)

\* Runtime::gas_left: [err, value]
gas_left_of(counter, limit) ==
    IF counter > limit
    THEN [err |-> "InvalidGasState", value |-> 0]
    ELSE [err |-> "Ok", value |-> limit - counter]

\* ------------------------------------------------------------ environment
StorageZero == [k \in H256 |-> [i \in 1..HashLen |-> 0]]
StorageFlip == [k \in H256 |-> [i \in 1..HashLen |-> 1 - k[i]]]
\* Environments passed to with_params.
ExtChoices == {[storage |-> StorageZero, sload_gas |-> 1],
               [storage |-> StorageFlip, sload_gas |-> 2]}

\* Ceilings passed to with_params: a small one and the two largest u64.
GasLimits == {2, U64Max - 1, U64Max}

\* Initial contents of the linear memory: all zero, or alternating bytes.
MemoryZero == [a \in 0..(MemSize - 1) |-> 0]
MemoryRamp == [a \in 0..(MemSize - 1) |-> a % 2]
MemoryChoices == {MemoryZero, MemoryRamp}

\* The context and the call data passed to with_params.
ContextParam == [address |-> "callee", sender |-> "sender", origin |-> "origin",
                 code_address |-> "code", value |-> 1]
ArgsParam == <<1, 0, 1>>

\* Indices of the env module's functions (env::ids), and one it does not provide.
STORAGE_READ_FUNC == "STORAGE_READ_FUNC"
RET_FUNC == "RET_FUNC"
GAS_FUNC == "GAS_FUNC"
UnknownIndex == "unknown"
Indices == {STORAGE_READ_FUNC, RET_FUNC, GAS_FUNC, UnknownIndex}

\* What a call returning () or None carries.
NoValue == 0 - 1

NoFrame == [args |-> <<>>, key |-> <<>>, val |-> <<>>]
Returned(op, res, value) ==
    [op |-> op, res |-> res, value |-> value, bytes |-> <<>>, args |-> <<>>]
\* A call returning a byte buffer.
ReturnedBytes(op, bytes) ==
    [op |-> op, res |-> "Ok", value |-> NoValue, bytes |-> bytes, args |-> <<>>]
\* A ret returning Ok(()), with the arguments it was called with.
ReturnedRet(args) ==
    [op |-> "ret", res |-> "Ok", value |-> NoValue, bytes |-> <<>>, args |-> args]

\* Runtime::with_params
Init ==
    /\ gas_counter = 0
    /\ gas_limit \in GasLimits
    /\ memory \in MemoryChoices
    /\ result = <<>>
    /\ ext \in ExtChoices
    /\ context = ContextParam
    /\ call_data = ArgsParam
    /\ pc = "idle"
    /\ frame = NoFrame
    /\ last = Returned("with_params", "Ok", NoValue)
    /\ log = <<>>
    /\ charged = 0

\* ------------------------------------------------------------ host calls
\* A call that returns an error before any effect.
Fail(op, res) ==
    /\ last' = Returned(op, res, NoValue)
    /\ pc' = "idle"

\* Runtime::charge, after the pricing closure returned `amount`: charge_gas,
\* Err(GasLimit) when it reports false; `next` is the caller's position after
\* Ok(()), `effects` the effects of the call so far.  A panic in the addition
\* unwinds out of the host call.
charge(op, amount, next, effects) ==
    \E o \in charge_gas(gas_counter, amount, gas_limit) :
        /\ gas_counter' = o.counter
        /\ log' = Append(effects, IF o.panic THEN "charge_panic"
                                   ELSE IF o.ok THEN "charge" ELSE "charge_failed")
        /\ charged' = IF o.ok THEN Min(charged + amount, ChargedCap) ELSE charged
        /\ pc' = IF o.panic THEN "panicked" ELSE IF o.ok THEN next ELSE "idle"
        /\ last' = Returned(op,
                            IF o.panic THEN "panic"
                            ELSE IF ~o.ok THEN "GasLimit"
                            ELSE IF next = "idle" THEN "Ok" ELSE "running",
                            NoValue)

\* Runtime::charge called on its own with a closure returning `amount`.
charge_call(amount) ==
    /\ pc = "idle"
    /\ charge("charge", amount, "idle", <<>>)
    /\ UNCHANGED <<gas_limit, memory, result, ext, context, call_data, frame>>

\* Runtime::gas
gas(args) ==
    /\ pc = "idle"
    /\ UNCHANGED <<gas_limit, memory, result, ext, context, call_data, frame>>
    /\ IF args[1] = BadArg
       THEN /\ Fail("gas", FromInterpreterError("Value"))
            /\ log' = <<>>
            /\ UNCHANGED <<gas_counter, charged>>
       ELSE charge("gas", AsU64(args[1]), "idle", <<>>)

\* Runtime::storage_read, lines 147-148: the key is read from memory at
\* args.nth(0), then args.nth(1) is taken as val_ptr.
storage_read_key(args) ==
    /\ pc = "idle"
    /\ UNCHANGED <<gas_counter, gas_limit, memory, result, ext, context, call_data, charged>>
    /\ IF args[1] = BadArg
       THEN /\ Fail("storage_read", FromInterpreterError("Value"))
            /\ log' = <<>>
            /\ UNCHANGED frame
       ELSE IF ~InBounds(args[1], HashLen)
       THEN /\ Fail("storage_read", FromInterpreterError("Memory"))
            /\ log' = <<>>
            /\ UNCHANGED frame
       ELSE IF args[2] = BadArg
       THEN /\ Fail("storage_read", FromInterpreterError("Value"))
            /\ log' = <<"mem_read">>
            /\ UNCHANGED frame
       ELSE /\ frame' = [args |-> args, key |-> MemGet(memory, args[1], HashLen),
                         val |-> <<>>]
            /\ log' = <<"mem_read">>
            /\ last' = Returned("storage_read", "running", NoValue)
            /\ pc' = "sr_env"

\* storage_read charging before it reads the environment (lines 150 and 152
\* exchanged).
storage_read_charge_first ==
    /\ pc = "sr_env"
    /\ UNCHANGED <<gas_limit, memory, result, ext, context, call_data>>
    /\ \E o \in charge_gas(gas_counter, AsU64(ext.sload_gas), gas_limit) :
        /\ gas_counter' = o.counter
        /\ charged' = IF o.ok THEN Min(charged + AsU64(ext.sload_gas), ChargedCap) ELSE charged
        /\ IF o.panic
           THEN /\ pc' = "panicked"
                /\ last' = Returned("storage_read", "panic", NoValue)
                /\ log' = Append(log, "charge_panic")
                /\ frame' = NoFrame
           ELSE IF ~o.ok
           THEN /\ Fail("storage_read", "GasLimit")
                /\ log' = Append(log, "charge_failed")
                /\ frame' = NoFrame
           ELSE /\ log' = log \o <<"charge", "env_read">>
                /\ \E env_ok \in BOOLEAN :
                    IF env_ok
                    THEN /\ frame' = [frame EXCEPT !.val = ext.storage[frame.key]]
                         /\ pc' = "sr_write"
                         /\ UNCHANGED last
                    ELSE /\ Fail("storage_read", "StorageReadError")
                         /\ frame' = NoFrame

\* Runtime::storage_read, line 150: self.ext.storage_at(&key), which the
\* environment may fail.
storage_read_env ==
    /\ pc = "sr_env"
    /\ log' = Append(log, "env_read")
    /\ UNCHANGED <<gas_counter, gas_limit, memory, result, ext, context, call_data, charged>>
    /\ \E env_ok \in BOOLEAN :
        IF env_ok
        THEN /\ frame' = [frame EXCEPT !.val = ext.storage[frame.key]]
             /\ pc' = "sr_charge"
             /\ UNCHANGED last
        ELSE /\ Fail("storage_read", "StorageReadError")
             /\ frame' = NoFrame

\* storage_read dropping the result of self.charge (line 152 without the `?`).
storage_read_charge_unchecked ==
    /\ pc = "sr_charge"
    /\ charge("storage_read", AsU64(ext.sload_gas), "sr_write", log)
        \/ /\ gas_counter + AsU64(ext.sload_gas) > gas_limit
           /\ gas_counter + AsU64(ext.sload_gas) <= U64Max
           /\ log' = Append(log, "charge_failed")
           /\ pc' = "sr_write"
           /\ UNCHANGED <<gas_counter, charged, last>>
    /\ frame' = IF pc' = "sr_write" THEN frame ELSE NoFrame
    /\ UNCHANGED <<gas_limit, memory, result, ext, context, call_data>>

\* Runtime::storage_read, line 152: self.charge(|schedule| schedule.sload_gas as u64)?
storage_read_charge ==
    /\ pc = "sr_charge"
    /\ charge("storage_read", AsU64(ext.sload_gas), "sr_write", log)
    /\ frame' = IF pc' = "sr_write" THEN frame ELSE NoFrame
    /\ UNCHANGED <<gas_limit, memory, result, ext, context, call_data>>

\* Runtime::storage_read, lines 154-156: self.memory.set(val_ptr, &*val)?; Ok(())
storage_read_write ==
    /\ pc = "sr_write"
    /\ pc' = "idle"
    /\ frame' = NoFrame
    /\ UNCHANGED <<gas_counter, gas_limit, result, ext, context, call_data, charged>>
    /\ IF InBounds(frame.args[2], Len(frame.val))
       THEN /\ memory' = MemSet(memory, frame.args[2], frame.val)
            /\ log' = Append(log, "mem_write")
            /\ last' = [last EXCEPT !.res = "Ok"]
       ELSE /\ last' = [last EXCEPT !.res = FromInterpreterError("Memory")]
            /\ UNCHANGED <<memory, log>>

\* ret extending the result buffer instead of replacing it.
ret_appends(args) ==
    /\ pc = "idle"
    /\ UNCHANGED <<gas_counter, gas_limit, memory, ext, context, call_data, frame, charged>>
    /\ IF args[1] = BadArg \/ args[2] = BadArg
       THEN /\ Fail("ret", FromInterpreterError("Value"))
            /\ log' = <<>>
            /\ UNCHANGED result
       ELSE IF ~InBounds(args[1], args[2])
       THEN /\ Fail("ret", FromInterpreterError("Memory"))
            /\ log' = <<>>
            /\ UNCHANGED result
       ELSE /\ result' = IF Len(result) + args[2] <= MemSize
                         THEN result \o MemGet(memory, args[1], args[2])
                         ELSE MemGet(memory, args[1], args[2])
            /\ log' = <<"mem_read">>
            /\ last' = ReturnedRet(args)
            /\ pc' = "idle"

\* ret clearing the result buffer before it reads its arguments and memory.
ret_clears_first(args) ==
    /\ pc = "idle"
    /\ UNCHANGED <<gas_counter, gas_limit, memory, ext, context, call_data, frame, charged>>
    /\ IF args[1] = BadArg \/ args[2] = BadArg
       THEN /\ Fail("ret", FromInterpreterError("Value"))
            /\ log' = <<>>
            /\ result' = <<>>
       ELSE IF ~InBounds(args[1], args[2])
       THEN /\ Fail("ret", FromInterpreterError("Memory"))
            /\ log' = <<>>
            /\ result' = <<>>
       ELSE /\ result' = MemGet(memory, args[1], args[2])
            /\ log' = <<"mem_read">>
            /\ last' = ReturnedRet(args)
            /\ pc' = "idle"

\* ret storing the bytes in self.args instead of self.result.
ret_into_args(args) ==
    /\ pc = "idle"
    /\ UNCHANGED <<gas_counter, gas_limit, memory, ext, context, result, frame, charged>>
    /\ IF args[1] = BadArg \/ args[2] = BadArg
       THEN /\ Fail("ret", FromInterpreterError("Value"))
            /\ log' = <<>>
            /\ UNCHANGED call_data
       ELSE IF ~InBounds(args[1], args[2])
       THEN /\ Fail("ret", FromInterpreterError("Memory"))
            /\ log' = <<>>
            /\ UNCHANGED call_data
       ELSE /\ call_data' = MemGet(memory, args[1], args[2])
            /\ log' = <<"mem_read">>
            /\ last' = ReturnedRet(args)
            /\ pc' = "idle"

\* Runtime::ret
ret(args) ==
    /\ pc = "idle"
    /\ UNCHANGED <<gas_counter, gas_limit, memory, ext, context, call_data, frame, charged>>
    /\ IF args[1] = BadArg \/ args[2] = BadArg
       THEN /\ Fail("ret", FromInterpreterError("Value"))
            /\ log' = <<>>
            /\ UNCHANGED result
       ELSE IF ~InBounds(args[1], args[2])
       THEN /\ Fail("ret", FromInterpreterError("Memory"))
            /\ log' = <<>>
            /\ UNCHANGED result
       ELSE /\ result' = MemGet(memory, args[1], args[2])
            /\ log' = <<"mem_read">>
            /\ last' = ReturnedRet(args)
            /\ pc' = "idle"

\* Runtime::gas_left
gas_left ==
    /\ pc = "idle"
    /\ last' = Returned("gas_left", gas_left_of(gas_counter, gas_limit).err,
                        gas_left_of(gas_counter, gas_limit).value)
    /\ log' = <<>>
    /\ UNCHANGED <<gas_counter, gas_limit, memory, result, ext, context, call_data,
                   pc, frame, charged>>

\* Runtime::result: a view of the result buffer.
result_view ==
    /\ pc = "idle"
    /\ last' = ReturnedBytes("result", result)
    /\ log' = <<>>
    /\ UNCHANGED <<gas_counter, gas_limit, memory, result, ext, context, call_data,
                   pc, frame, charged>>

\* dissolve yielding a fresh buffer instead of self.result.
dissolve_yields_empty ==
    /\ pc = "idle"
    /\ pc' = "dissolved"
    /\ last' = ReturnedBytes("dissolve", <<>>)
    /\ log' = <<>>
    /\ UNCHANGED <<gas_counter, gas_limit, memory, result, ext, context, call_data,
                   frame, charged>>

\* Runtime::dissolve: consumes the Runtime and yields the result buffer.
dissolve ==
    /\ pc = "idle"
    /\ pc' = "dissolved"
    /\ last' = ReturnedBytes("dissolve", result)
    /\ log' = <<>>
    /\ UNCHANGED <<gas_counter, gas_limit, memory, result, ext, context, call_data,
                   frame, charged>>

\* The `?` of a host function converting an interpreter fault that is
\* neither an argument fault nor a memory fault, or any other use of
\* Error::from(interpreter_err).
from_interpreter_error(interpreter_err) ==
    /\ pc = "idle"
    /\ last' = Returned("from", FromInterpreterError(interpreter_err), NoValue)
    /\ log' = <<>>
    /\ UNCHANGED <<gas_counter, gas_limit, memory, result, ext, context, call_data,
                   pc, frame, charged>>

\* invoke_index returning Err(Error::Unknown) on an index it does not know.
invoke_unknown_returns_error ==
    /\ pc = "idle"
    /\ Fail("invoke_index", "Unknown")
    /\ log' = <<>>
    /\ UNCHANGED <<gas_counter, gas_limit, memory, result, ext, context, call_data,
                   frame, charged>>

\* The panic of invoke_index on an index the env module does not provide.
invoke_unknown ==
    /\ pc = "idle"
    /\ pc' = "panicked"
    /\ last' = Returned("invoke_index", "panic", NoValue)
    /\ log' = <<>>
    /\ UNCHANGED <<gas_counter, gas_limit, memory, result, ext, context, call_data,
                   frame, charged>>

\* Externals::invoke_index: void!(..) gives Ok(None) when the operation
\* returns Ok(()) and passes its error on otherwise.
invoke_index(index, args) ==
    IF index = STORAGE_READ_FUNC THEN storage_read_key(args)
    ELSE IF index = RET_FUNC THEN ret(args)
    ELSE IF index = GAS_FUNC THEN gas(args)
    ELSE invoke_unknown

Next ==
    \/ \E a, b \in ArgValue : invoke_index(STORAGE_READ_FUNC, <<a, b>>)
    \/ \E a, b \in ArgValue : invoke_index(RET_FUNC, <<a, b>>)
    \/ \E a \in ArgValue : invoke_index(GAS_FUNC, <<a>>)
    \/ invoke_index(UnknownIndex, <<>>)
    \/ \E amount \in U64 : charge_call(amount)
    \/ storage_read_env
    \/ storage_read_charge
    \/ storage_read_write
    \/ \E interpreter_err \in InterpreterErrors : from_interpreter_error(interpreter_err)
    \/ gas_left
    \/ result_view
    \/ dissolve

Spec == Init /\ [][Next]_vars

\* ====================================================================
\* Properties
\* ====================================================================

\* A step in which charge_gas(amount) is called, by gas, by charge or by
\* storage_read.
Charging(amount) ==
    \/ charge_call(amount)
    \/ \E a \in U32 : AsU64(a) = amount /\ gas(<<a>>)
    \/ amount = AsU64(ext.sload_gas) /\ storage_read_charge

\* The step's charge_gas returned true.
ChargeSucceeded == log' # <<>> /\ log'[Len(log')] = "charge"

\* C1: charge_gas(amount) succeeds iff consumed + amount <= ceiling; on
\* success consumed grows by exactly amount, on failure it is unchanged.
C1_ChargeIffFits ==
    [][\A amount \in U64 : Charging(amount) =>
          /\ ChargeSucceeded <=> gas_counter + amount <= gas_limit
          /\ ChargeSucceeded => gas_counter' = gas_counter + amount
          /\ ~ChargeSucceeded => gas_counter' = gas_counter]_vars

\* C2: when consumed + amount overflows the u64 range the charge is treated
\* as exceeding the ceiling: it fails with GasLimit and consumed is unchanged.
C2_OverflowIsGasLimit ==
    [][\A amount \in U64 : Charging(amount) /\ gas_counter + amount > U64Max =>
          /\ last'.res = "GasLimit"
          /\ gas_counter' = gas_counter]_vars

\* C3: consumed <= ceiling in every reachable state, so gas_left never
\* returns InvalidGasState.
C3_CounterWithinLimit ==
    /\ gas_counter <= gas_limit
    /\ gas_left_of(gas_counter, gas_limit).err = "Ok"
    /\ last.op = "gas_left" => last.res = "Ok"

\* C3 witness: gas_left is called with the whole ceiling used up by
\* successful charges.
C3_Witness ==
    /\ last.op = "gas_left"
    /\ gas_counter = gas_limit
    /\ charged > 0

\* C4: the consumed-gas counter never decreases, changes only in a step where
\* charge_gas succeeds, and the ceiling never changes.
C4_CounterMonotonic ==
    [][/\ gas_counter' >= gas_counter
       /\ gas_counter' # gas_counter => ChargeSucceeded /\ \E amount \in U64 : Charging(amount)
       /\ gas_limit' = gas_limit]_vars

\* C5: gas_left returns ceiling - consumed (InvalidGasState when consumed
\* exceeds the ceiling), which after any sequence of successful charges is the
\* ceiling minus the sum of the charged amounts, and it changes no state.
C5_GasLeftIsCeilingMinusCharged ==
    /\ [](last.op = "gas_left" =>
            /\ last.res = (IF gas_counter <= gas_limit THEN "Ok" ELSE "InvalidGasState")
            /\ last.res = "Ok" => last.value = gas_limit - gas_counter
            /\ last.value = gas_limit - charged)
    /\ [][gas_left => UNCHANGED <<gas_counter, gas_limit, memory, result, ext, context, call_data>>]_vars

\* C6: gas(amount) charges exactly amount: it succeeds and consumed grows by
\* amount when consumed + amount <= ceiling, otherwise it returns GasLimit and
\* leaves consumed and gas_left unchanged.
C6_GasChargesVerbatim ==
    [][\A a \in U32 : gas(<<a>>) =>
          IF gas_counter + a <= gas_limit
          THEN last'.res = "Ok" /\ gas_counter' = gas_counter + a
          ELSE /\ last'.res = "GasLimit"
               /\ gas_counter' = gas_counter
               /\ gas_left_of(gas_counter', gas_limit') = gas_left_of(gas_counter, gas_limit)]_vars

\* The gas left, as an integer (gas_left's value when it succeeds).
GasLeft == gas_left_of(gas_counter, gas_limit).value

\* C7: a successful storage_read charges the storage-load price exactly once
\* (gas_left decreases by exactly sload_gas) and leaves at [val_ptr, val_ptr+32)
\* the value the environment holds for the key read from [key_ptr, key_ptr+32),
\* changing no other memory byte.
C7_StorageReadChargesAndWrites ==
    /\ [](last.op = "storage_read" /\ last.res = "Ok" =>
            log = <<"mem_read", "env_read", "charge", "mem_write">>)
    /\ [][storage_read_charge /\ ChargeSucceeded =>
            GasLeft' = GasLeft - ext.sload_gas]_vars
    /\ [][(storage_read_env \/ storage_read_write) => GasLeft' = GasLeft]_vars
    /\ [][storage_read_write /\ last'.res = "Ok" =>
            \A a \in 0..(MemSize - 1) :
                memory'[a] =
                    IF a >= frame.args[2] /\ a < frame.args[2] + HashLen
                    THEN ext.storage[MemGet(memory, frame.args[1], HashLen)][a - frame.args[2] + 1]
                    ELSE memory[a]]_vars

\* C8: when the environment's storage lookup fails, storage_read returns
\* StorageReadError with memory untouched and no gas charged: nothing but the
\* key read precedes the lookup, and the failing lookup ends the call.
C8_EnvFailureNoEffect ==
    /\ [](pc = "sr_env" => log = <<"mem_read">>)
    /\ [](last.op = "storage_read" /\ last.res = "StorageReadError"
            => pc = "idle" /\ log = <<"mem_read", "env_read">>)
    /\ [][last'.res = "StorageReadError" /\ last.res # "StorageReadError"
            => /\ storage_read_env
               /\ memory' = memory
               /\ gas_counter' = gas_counter
               /\ result' = result]_vars

\* C8 witness: a storage_read has returned StorageReadError.
C8_Witness == last.op = "storage_read" /\ last.res = "StorageReadError"

\* The effects of a storage_read that runs to the end, in the order of its code.
SrEffects == <<"mem_read", "env_read", "charge", "mem_write">>

IsPrefix(p, q) == Len(p) <= Len(q) /\ \A i \in 1..Len(p) : p[i] = q[i]

\* C9: within one storage_read the effects come in the order environment read,
\* gas charge, memory write; the environment is read before the gas check, so
\* also in a call that fails with GasLimit.
C9_ReadThenChargeThenWrite ==
    last.op = "storage_read" =>
        /\ \/ IsPrefix(log, SrEffects)
           \/ log = <<"mem_read", "env_read", "charge_failed">>
           \/ log = <<"mem_read", "env_read", "charge_panic">>
        /\ last.res = "GasLimit" => log = <<"mem_read", "env_read", "charge_failed">>
        /\ pc = "sr_charge" => log = <<"mem_read", "env_read">>
        /\ pc = "sr_write" => log = <<"mem_read", "env_read", "charge">>

\* C9 witness: a storage_read has failed with GasLimit after reading the
\* environment.
C9_Witness ==
    /\ last.op = "storage_read"
    /\ last.res = "GasLimit"
    /\ log = <<"mem_read", "env_read", "charge_failed">>

\* C10 as stated: a host operation reads or writes memory, or reads the
\* environment, only in or after the step of its gas charge.
C10_ChargeBeforeEveryEffect ==
    \A i \in 1..Len(log) :
        log[i] \in {"mem_read", "env_read", "mem_write"} =>
            \E j \in 1..i : log[j] = "charge"

\* C10 amended: interpreter memory is written only by storage_read, in the
\* step after its gas charge succeeded; the key read and the environment read
\* of storage_read precede its charge, and ret reads memory charging no gas.
C10_ChargeBeforeWrite ==
    /\ [](\A i \in 1..Len(log) :
            log[i] = "mem_write" => \E j \in 1..(i - 1) : log[j] = "charge")
    /\ [](last.op = "storage_read" =>
            \A i \in 1..Len(log) :
                log[i] \in {"charge", "charge_failed", "charge_panic"} =>
                    /\ \E j \in 1..(i - 1) : log[j] = "mem_read"
                    /\ \E j \in 1..(i - 1) : log[j] = "env_read")
    /\ [](last.op = "ret" /\ last.res = "Ok" => log = <<"mem_read">>)
    /\ [][memory' # memory =>
            /\ storage_read_write
            /\ log = <<"mem_read", "env_read", "charge">>]_vars
    /\ [][result' # result => \E a, b \in U32 : ret(<<a, b>>)]_vars

\* C10 witness: a storage_read has charged and then written memory.
C10_Witness ==
    /\ last.op = "storage_read"
    /\ last.res = "Ok"
    /\ log = SrEffects

\* C11: a storage_read whose charge fails returns GasLimit at once: it writes
\* no memory and leaves memory, the result buffer and the consumed-gas counter
\* as they were before the call (no step of the call up to and including the
\* failed charge changes them).
C11_GasLimitAbortsStorageRead ==
    /\ [](last.op = "storage_read" /\ last.res = "GasLimit" =>
            /\ pc = "idle"
            /\ log = <<"mem_read", "env_read", "charge_failed">>)
    /\ [][last'.op = "storage_read" /\ last'.res = "GasLimit" /\ last.res # "GasLimit" =>
            /\ storage_read_charge
            /\ memory' = memory /\ result' = result /\ gas_counter' = gas_counter]_vars
    /\ [][(pc = "idle" \/ pc = "sr_env") /\ last'.op = "storage_read" =>
            memory' = memory /\ result' = result /\ gas_counter' = gas_counter]_vars

\* C11 witness: a storage_read has failed with GasLimit after other calls
\* charged gas and stored a result.
C11_Witness ==
    /\ last.op = "storage_read"
    /\ last.res = "GasLimit"
    /\ gas_counter > 0
    /\ result # <<>>

\* C12: after a successful ret(ptr, len) the result buffer is exactly the len
\* bytes at memory [ptr, ptr+len); that holds whatever the buffer held before
\* (a later ret replaces it, it never appends), and a ret on a Runtime that
\* already holds a result is not an error.
C12_RetReplacesResult ==
    /\ last.op = "ret" /\ last.res = "Ok" =>
        /\ Len(result) = last.args[2]
        /\ \A i \in 1..last.args[2] : result[i] = memory[last.args[1] + i - 1]
    /\ pc = "idle" /\ result # <<>> =>
        ENABLED (ret(<<0, 0>>) /\ last'.res = "Ok" /\ result' = <<>>)

\* C12 witness: a ret has succeeded with a non-empty range that does not start
\* at 0 and is shorter than the memory.
C12_Witness ==
    /\ last.op = "ret"
    /\ last.res = "Ok"
    /\ last.args[1] > 0
    /\ Len(result) > 0
    /\ Len(result) < MemSize

\* C13: a memory access of a host operation whose range exceeds the memory
\* fails with MemoryAccessViolation and touches no byte: the key read of
\* storage_read, its value write, and the read of ret.
C13_OutOfBoundsTouchesNothing ==
    /\ [](pc = "idle" =>
            /\ \A a \in U32 : \A b \in {0, BadArg} :
                a + HashLen > MemSize =>
                    ~ENABLED (/\ storage_read_key(<<a, b>>)
                              /\ ~(/\ last'.res = "MemoryAccessViolation"
                                   /\ log' = <<>>
                                   /\ memory' = memory))
            /\ \A a, b \in U32 :
                a + b > MemSize =>
                    ~ENABLED (/\ ret(<<a, b>>)
                              /\ ~(/\ last'.res = "MemoryAccessViolation"
                                   /\ log' = <<>>
                                   /\ result' = result
                                   /\ memory' = memory)))
    /\ [](pc = "sr_write" /\ frame.args[2] + HashLen > MemSize =>
            ~ENABLED (/\ storage_read_write
                      /\ ~(/\ last'.res = "MemoryAccessViolation"
                           /\ log' = log
                           /\ memory' = memory)))
    /\ [][last'.res = "MemoryAccessViolation" => memory' = memory /\ result' = result]_vars

\* C13 witness: a storage_read has failed with MemoryAccessViolation at its
\* value write, after its key read, environment read and charge.
C13_Witness ==
    /\ last.op = "storage_read"
    /\ last.res = "MemoryAccessViolation"
    /\ log = <<"mem_read", "env_read", "charge">>

\* C14: invoke_index with an index that is not storage-read, return or
\* gas-report ends in the panicked state, which is no returned error kind and
\* no no-op, without changing gas, memory or the result buffer, and nothing
\* runs after it; the three known indices run their operation and give an
\* empty value on success.
C14_UnknownIndexAborts ==
    /\ [](pc = "idle" =>
            /\ ENABLED invoke_index(UnknownIndex, <<>>)
            /\ ~ENABLED (/\ invoke_index(UnknownIndex, <<>>)
                         /\ ~(/\ pc' = "panicked"
                              /\ last'.res = "panic"
                              /\ last'.res \notin ErrorKinds \cup {"Ok"}
                              /\ gas_counter' = gas_counter
                              /\ memory' = memory
                              /\ result' = result))
            /\ \A a \in ArgValue :
                /\ ~ENABLED (invoke_index(GAS_FUNC, <<a>>) /\ last'.op # "gas")
                /\ ~ENABLED (invoke_index(RET_FUNC, <<a, 0>>) /\ last'.op # "ret")
                /\ ~ENABLED (invoke_index(STORAGE_READ_FUNC, <<a, 0>>)
                             /\ last'.op # "storage_read"))
    /\ [](last.op = "invoke_index" => pc = "panicked" /\ last.res = "panic")
    /\ [](pc = "panicked" => ~ENABLED Next)
    /\ [](last.op \in {"storage_read", "ret", "gas"} /\ last.res = "Ok" =>
            last.value = NoValue /\ last.bytes = <<>>)

\* C14 witness: invoke_index has panicked on an unknown index after gas was
\* charged and a result stored.
C14_Witness ==
    /\ pc = "panicked"
    /\ last.op = "invoke_index"
    /\ gas_counter > 0
    /\ result # <<>>

\* C15: the conversion from interpreter faults is total and single-valued: a
\* Value fault gives InvalidSyscall, a Memory fault MemoryAccessViolation,
\* every other fault Other, and none gives any other kind.
C15_ConversionTotal ==
    /\ pc = "idle" =>
        \A e \in InterpreterErrors :
            /\ ENABLED from_interpreter_error(e)
            /\ ~ENABLED (/\ from_interpreter_error(e)
                         /\ last'.res # (IF e = "Value" THEN "InvalidSyscall"
                                         ELSE IF e = "Memory" THEN "MemoryAccessViolation"
                                         ELSE "Other"))
    /\ last.op = "from" =>
        /\ last.res \in {"InvalidSyscall", "MemoryAccessViolation", "Other"}
        /\ last.res \in ErrorKinds
    /\ last.res = "InvalidSyscall" => last.op \in {"from", "gas", "ret", "storage_read"}

\* C15 witness: a fault that is neither a Value nor a Memory fault has been
\* converted.
C15_Witness == last.op = "from" /\ last.res = "Other"

\* C16: the result buffer is empty at construction and changes only in a
\* successful ret; result() shows it and dissolve() yields exactly what
\* result() showed immediately before.
C16_ResultOnlyByRet ==
    /\ [](last.op = "with_params" => result = <<>>)
    /\ [][result' # result => pc = "idle" /\ last'.op = "ret" /\ last'.res = "Ok"]_vars
    /\ [](last.op \in {"result", "dissolve"} => last.res = "Ok" /\ last.bytes = result)
    /\ [](pc = "idle" /\ last.op = "result" =>
            /\ ENABLED dissolve
            /\ ~ENABLED (dissolve /\ last'.bytes # last.bytes))

\* C16 witness: dissolve has yielded a non-empty buffer stored by a ret.
C16_Witness ==
    /\ pc = "dissolved"
    /\ last.op = "dissolve"
    /\ last.bytes # <<>>

\* C17: the execution context and the input args are never changed by a
\* host operation: in every reachable state they equal the values passed to
\* with_params.
C17_ContextAndArgsImmutable ==
    /\ [](context = ContextParam /\ call_data = ArgsParam)
    /\ [][context' = context /\ call_data' = call_data]_vars

\* C17 witness: a storage_read has written memory after a ret stored a result
\* and after a further charge, with context and args as constructed.
C17_Witness ==
    /\ last.op = "storage_read"
    /\ last.res = "Ok"
    /\ result # <<>>
    /\ gas_counter > AsU64(ext.sload_gas)
    /\ context = ContextParam
    /\ call_data = ArgsParam

\* C18: storage_read is not atomic on a bad destination. With the key read
\* and the environment read done and [val_ptr, val_ptr+32) out of bounds:
\* when gas suffices the charge is made (consumed grows by sload_gas) and the
\* call then returns MemoryAccessViolation with memory unchanged; when gas
\* does not suffice the call returns GasLimit, not MemoryAccessViolation.
C18_BadDestinationChargedThenFails ==
    /\ [][pc = "sr_charge" /\ ~InBounds(frame.args[2], HashLen) =>
            IF gas_counter + AsU64(ext.sload_gas) <= gas_limit
            THEN /\ pc' = "sr_write"
                 /\ gas_counter' = gas_counter + AsU64(ext.sload_gas)
                 /\ memory' = memory
            ELSE /\ pc' = "idle"
                 /\ last'.op = "storage_read"
                 /\ last'.res = "GasLimit"
                 /\ gas_counter' = gas_counter
                 /\ memory' = memory]_vars
    /\ [][pc = "sr_write" /\ ~InBounds(frame.args[2], HashLen) =>
            /\ pc' = "idle"
            /\ last'.op = "storage_read"
            /\ last'.res = "MemoryAccessViolation"
            /\ log' = <<"mem_read", "env_read", "charge">>
            /\ gas_counter' = gas_counter
            /\ memory' = memory]_vars

\* C19: a ret that fails, on an out-of-bounds range or on malformed arguments,
\* leaves the stored result buffer unchanged, and no ret, successful or not,
\* changes the consumed-gas counter or memory.
C19_FailedRetKeepsResult ==
    [][pc = "idle" /\ last'.op = "ret" =>
          /\ gas_counter' = gas_counter
          /\ memory' = memory
          /\ last'.res \in {"Ok", "MemoryAccessViolation", "InvalidSyscall"}
          /\ last'.res # "Ok" => result' = result /\ log' = <<>>]_vars

\* C19 witness: a ret has failed on an out-of-bounds range after an earlier
\* ret stored a result and after gas was charged.
C19_Witness ==
    /\ last.op = "ret"
    /\ last.res = "MemoryAccessViolation"
    /\ result # <<>>
    /\ gas_counter > 0

\* C20: gas exhaustion bounds the work. The units charged by successful calls
\* never add up to more than the ceiling, so at most ceiling calls that each
\* charge at least one unit succeed; and in every state a charge of at least
\* gas_left() + 1 units, by gas, by charge or by storage_read, fails with
\* GasLimit and leaves the counter as it was.
C20_GasExhaustionBoundsWork ==
    /\ [](charged <= gas_limit)
    /\ [](pc = "idle" =>
            /\ \A a \in U32 : AsU64(a) >= GasLeft + 1 =>
                 ~ENABLED (gas(<<a>>) /\ ~(last'.res = "GasLimit" /\ gas_counter' = gas_counter))
            /\ \A amount \in U64 : amount >= GasLeft + 1 =>
                 ~ENABLED (charge_call(amount)
                           /\ ~(last'.res = "GasLimit" /\ gas_counter' = gas_counter)))
    /\ [][pc = "sr_charge" /\ AsU64(ext.sload_gas) >= GasLeft + 1 =>
            last'.res = "GasLimit" /\ gas_counter' = gas_counter]_vars
====
